---- MODULE Spec2Model ----
(***************************************************************************)
(* Model of hpctops.charm.service.ServiceCharm: the service lifecycle      *)
(* state machine, the sync tracker and the status projection.              *)
(*                                                                         *)
(* Python values are modelled as strings: the sync values True, False and  *)
(* None are "True", "False" and "None"; a dict is a function whose DOMAIN  *)
(* is its key set.  The stored `updated` value is [timestamp, what]; the   *)
(* wall-clock timestamp is left out and every stamp is recorded in `log`.  *)
(* Overridable hooks and sync handlers are opaque calls whose only         *)
(* modelled outcome is "returns" or "raises".                              *)
(*                                                                         *)
(* The stored fields and the unit status outlive the charm object; the     *)
(* required syncs and the sync handlers are attributes of the object and   *)
(* are emptied each time the charm is constructed over the stored record.  *)
(* The status message of service_set_status_message is left out of the     *)
(* projected status.                                                       *)
(***************************************************************************)
EXTENDS Integers, Sequences, FiniteSets, TLC

VARIABLES
    state,      \* _service_stored.state
    stale,      \* _service_stored.stale
    syncs,      \* _service_stored.syncs (dict key -> "True"/"False"/"None")
    updated,    \* _service_stored.updated: the `what` tag of [timestamp, what]
    required,   \* _service_required_syncs (as a set)
    handlers,   \* _service_sync_handlers: key -> TRUE iff a handler is bound
    status,     \* unit.status as last assigned by service_update_status
    log,        \* calls made by the last public operation, in order
    lastOp,     \* the public operation that has just returned, its arguments
                \* and its pre-state; NoOp while the dispatcher is idle
    raised,     \* TRUE iff the last public operation raised to its caller
    everPassed  \* keys ever passed to service_init_sync or service_set_sync

vars == <<state, stale, syncs, updated, required, handlers, status, log,
          lastOp, raised, everPassed>>

\* Sync keys used by callers (relation names in NodeCharm).
Keys == {"db", "cache"}

States == {"idle", "enabled", "started", "waiting", "broken"}

SyncValues == {"True", "False", "None"}

PRESTARTED_STATES == {"enabled", "waiting", "broken"}

STARTED_STATES == {"started", "waiting", "broken"}

EmptyDict == [k \in {} |-> "None"]

\* Python truthiness of a sync value.
Truthy(v) == v = "True"

\* dict.__setitem__
DictSet(d, k, v) == (k :> v) @@ d

(***************************************************************************)
(* The record r threaded through the operators below holds the stored      *)
(* fields, the two attributes of the charm object (required syncs and sync *)
(* handlers), the unit status, the call log and `exc`, which is TRUE while *)
(* an exception is in flight.                                              *)
(***************************************************************************)
Rec == [state |-> state, stale |-> stale, syncs |-> syncs,
        updated |-> updated, status |-> status, required |-> required,
        handlers |-> handlers, log |-> <<>>, exc |-> FALSE]

\* Variant of service_get_sync whose default for an unknown key is True.
service_get_sync_DefaultTrue(r, key) ==
    IF key \in DOMAIN r.syncs THEN r.syncs[key] ELSE "True"

service_get_sync(r, key) ==
    IF key \in DOMAIN r.syncs THEN r.syncs[key] ELSE "False"

service_get_syncs(r) == r.syncs

service_is_synced(r) ==
    \A name \in r.required : Truthy(service_get_sync(r, name))

service_set_updated(r, what) ==
    [r EXCEPT !.updated = what, !.log = Append(@, <<"stamp", what>>)]

\* Variant of the status class selection that shows waiting as Maintenance.
StatusClass_WaitingAsMaintenance(s) ==
    IF s \in {"broken"} THEN "Blocked"
    ELSE IF s \in {"idle", "enabled", "waiting"} THEN "Maintenance"
    ELSE IF s \in {"started"} THEN "Active"
    ELSE "Maintenance"

StatusClass(s) ==
    IF s \in {"broken"} THEN "Blocked"
    ELSE IF s \in {"idle", "enabled"} THEN "Maintenance"
    ELSE IF s \in {"waiting"} THEN "Waiting"
    ELSE IF s \in {"started"} THEN "Active"
    ELSE "Maintenance"

service_update_status(r) ==
    [r EXCEPT !.status = [cls     |-> StatusClass(r.state),
                          updated |-> r.updated,
                          stale   |-> r.stale,
                          state   |-> r.state,
                          nsynced |-> Cardinality({k \in DOMAIN r.syncs : Truthy(r.syncs[k])}),
                          nsyncs  |-> Cardinality(DOMAIN r.syncs),
                          syncs   |-> r.syncs],
              !.log = Append(@, <<"status", "">>)]

\* tuple(self.service_get_updated()) raises TypeError when updated is None.
service_update_status_raises(r) == r.updated = "None"

\* Variant of service_set_stale that neither stamps nor updates the status.
service_set_stale_Silent(r, flag) ==
    IF r.stale # flag THEN [r EXCEPT !.stale = flag] ELSE r

service_set_stale(r, flag) ==
    IF r.stale # flag
    THEN service_update_status(service_set_updated([r EXCEPT !.stale = flag], "stale"))
    ELSE r

\* Variant of service_set_state that keeps broken once it is reached.
service_set_state_StickyBroken(r, requested) ==
    LET current == r.state
        synced  == service_is_synced(r)
        s1 == IF requested \in {"broken", "waiting"} THEN "started" ELSE requested
        s2 == IF s1 = "started" /\ (~synced \/ current = "broken")
              THEN IF current \in {"broken", "started"} THEN "broken" ELSE "waiting"
              ELSE s1
    IN  IF current # s2
        THEN service_update_status(service_set_updated([r EXCEPT !.state = s2], "state"))
        ELSE r

\* Variant of service_set_state that escalates waiting to broken as well.
service_set_state_EscalateWaiting(r, requested) ==
    LET current == r.state
        synced  == service_is_synced(r)
        s1 == IF requested \in {"broken", "waiting"} THEN "started" ELSE requested
        s2 == IF s1 = "started" /\ ~synced
              THEN IF current \in {"broken", "started", "waiting"} THEN "broken"
                   ELSE "waiting"
              ELSE s1
    IN  IF current # s2
        THEN service_update_status(service_set_updated([r EXCEPT !.state = s2], "state"))
        ELSE r

\* Variant of service_set_state that commits a requested broken or waiting.
service_set_state_NoNormalize(r, requested) ==
    LET current == r.state
        synced  == service_is_synced(r)
        s2 == IF requested = "started" /\ ~synced
              THEN IF current \in {"broken", "started"} THEN "broken" ELSE "waiting"
              ELSE requested
    IN  IF current # s2
        THEN service_update_status(service_set_updated([r EXCEPT !.state = s2], "state"))
        ELSE r

\* Variant of service_set_state that never escalates to broken.
service_set_state_NoEscalate(r, requested) ==
    LET current == r.state
        synced  == service_is_synced(r)
        s1 == IF requested \in {"broken", "waiting"} THEN "started" ELSE requested
        s2 == IF s1 = "started" /\ ~synced THEN "waiting" ELSE s1
    IN  IF current # s2
        THEN service_update_status(service_set_updated([r EXCEPT !.state = s2], "state"))
        ELSE r

service_set_state(r, requested) ==
    LET current == r.state
        synced  == service_is_synced(r)
        s1 == IF requested \in {"broken", "waiting"} THEN "started" ELSE requested
        s2 == IF s1 = "started" /\ ~synced
              THEN IF current \in {"broken", "started"} THEN "broken" ELSE "waiting"
              ELSE s1
    IN  IF current # s2
        THEN service_update_status(service_set_updated([r EXCEPT !.state = s2], "state"))
        ELSE r

\* A call of an overridable hook (_service_install, _service_start, ...).
CallHook(r, name, ok) ==
    [r EXCEPT !.log = IF ok THEN Append(@, <<"hook", name>>)
                      ELSE Append(Append(@, <<"hook", name>>), <<"hook-raise", name>>),
              !.exc = ~ok]

\* A call of the sync handler bound to key; its exception is caught.
CallHandler(r, key, ok) ==
    [r EXCEPT !.log = IF ok THEN Append(@, <<"handler", key>>)
                      ELSE Append(Append(@, <<"handler", key>>), <<"handler-raise", key>>)]

\* except Exception: logger.debug(...)
Caught(r) == [r EXCEPT !.exc = FALSE]

\* Variant of service_set_sync in which a raising handler ends the call.
service_set_sync_HandlerAborts(r, key, status_arg, force_arg, hOk) ==
    LET current == IF key \in DOMAIN r.syncs THEN r.syncs[key] ELSE "None"
        st      == IF status_arg = "None" THEN current ELSE status_arg
        force   == IF status_arg = "None" THEN TRUE ELSE force_arg
    IN  IF current # st \/ force
        THEN LET r1 == [r EXCEPT !.syncs = DictSet(r.syncs, key, st)]
                 r2 == IF r.handlers[key] THEN CallHandler(r1, key, hOk) ELSE r1
                 r3 == service_set_state(r2, r2.state)
             IN  IF r.handlers[key] /\ ~hOk THEN r2
                 ELSE service_update_status(service_set_updated(r3, "sync"))
        ELSE r

\* Variant of service_set_sync that does not re-evaluate the state.
service_set_sync_NoReeval(r, key, status_arg, force_arg, hOk) ==
    LET current == IF key \in DOMAIN r.syncs THEN r.syncs[key] ELSE "None"
        st      == IF status_arg = "None" THEN current ELSE status_arg
        force   == IF status_arg = "None" THEN TRUE ELSE force_arg
    IN  IF current # st \/ force
        THEN LET r1 == [r EXCEPT !.syncs = DictSet(r.syncs, key, st)]
                 r2 == IF r.handlers[key] THEN CallHandler(r1, key, hOk) ELSE r1
             IN  service_update_status(service_set_updated(r2, "sync"))
        ELSE r

\* Variant of service_set_sync that acts even when the value is unchanged.
service_set_sync_AlwaysForce(r, key, status_arg, force_arg, hOk) ==
    LET current == IF key \in DOMAIN r.syncs THEN r.syncs[key] ELSE "None"
        st      == IF status_arg = "None" THEN current ELSE status_arg
        r1 == [r EXCEPT !.syncs = DictSet(r.syncs, key, st)]
        r2 == IF r.handlers[key] THEN CallHandler(r1, key, hOk) ELSE r1
        r3 == service_set_state(r2, r2.state)
    IN  service_update_status(service_set_updated(r3, "sync"))

\* Variant of service_set_sync that does not store an omitted status for a
\* key it does not know yet.
service_set_sync_SkipUnsetNew(r, key, status_arg, force_arg, hOk) ==
    LET current == IF key \in DOMAIN r.syncs THEN r.syncs[key] ELSE "None"
        st      == IF status_arg = "None" THEN current ELSE status_arg
        force   == IF status_arg = "None" THEN TRUE ELSE force_arg
    IN  IF current # st \/ force
        THEN LET r1 == IF st = "None" /\ key \notin DOMAIN r.syncs THEN r
                       ELSE [r EXCEPT !.syncs = DictSet(r.syncs, key, st)]
                 r2 == IF r.handlers[key] THEN CallHandler(r1, key, hOk) ELSE r1
                 r3 == service_set_state(r2, r2.state)
             IN  service_update_status(service_set_updated(r3, "sync"))
        ELSE r

service_set_sync(r, key, status_arg, force_arg, hOk) ==
    LET current == IF key \in DOMAIN r.syncs THEN r.syncs[key] ELSE "None"
        st      == IF status_arg = "None" THEN current ELSE status_arg
        force   == IF status_arg = "None" THEN TRUE ELSE force_arg
    IN  IF current # st \/ force
        THEN LET r1 == [r EXCEPT !.syncs = DictSet(r.syncs, key, st)]
                 r2 == IF r.handlers[key] THEN CallHandler(r1, key, hOk) ELSE r1
                 r3 == service_set_state(r2, r2.state)
             IN  service_update_status(service_set_updated(r3, "sync"))
        ELSE r

\* Variant of service_init_sync that also sets a key that is already present.
service_init_sync_Overwrite(r, key, status_arg, handler, hOk) ==
    [service_set_sync(r, key, status_arg, FALSE, hOk)
        EXCEPT !.handlers[key] = handler]

\* handler is TRUE when a callable is passed and FALSE when it is None.
service_init_sync(r, key, status_arg, handler, hOk) ==
    LET a == IF key \notin DOMAIN r.syncs
             THEN service_set_sync(r, key, status_arg, FALSE, hOk)
             ELSE r
    IN  [a EXCEPT !.handlers[key] = handler]

service_set_required_syncs(r, keys) == [r EXCEPT !.required = keys]

\* Variant of the wrapper that stamps and updates only after a normal return.
service_forced_update_NotFinally(r, what) ==
    IF r.exc THEN r ELSE service_update_status(service_set_updated(r, what))

\* The finally clause of the service_forced_update wrapper.
service_forced_update(r, what) ==
    service_update_status(service_set_updated(r, what))

service_install(r, ok) ==
    service_forced_update(CallHook(r, "install", ok), "install")

\* Variant of service_enable without the except clause.
service_enable_NoCatch(r, ok) ==
    LET body == IF r.state = "idle"
                THEN LET h == CallHook(r, "enable", ok)
                     IN  IF h.exc THEN h
                         ELSE service_set_updated(service_set_state(h, "enabled"), "enable")
                ELSE r
    IN  service_forced_update(body, "enable")

service_enable(r, ok) ==
    LET body == IF r.state = "idle"
                THEN LET h == CallHook(r, "enable", ok)
                     IN  IF h.exc THEN Caught(h)
                         ELSE service_set_updated(service_set_state(h, "enabled"), "enable")
                ELSE r
    IN  service_forced_update(body, "enable")

service_disable(r, ok) ==
    LET body == IF r.state = "enabled"
                THEN LET h == CallHook(r, "disable", ok)
                     IN  IF h.exc THEN Caught(h)
                         ELSE service_set_updated(service_set_state(h, "idle"), "disable")
                ELSE r
    IN  service_forced_update(body, "disable")

\* Variant of service_sync that marks the service stale when the hook raises.
service_sync_FailMarksStale(r, force, ok) ==
    LET body == IF r.state \notin PRESTARTED_STATES /\ ~force
                THEN service_set_updated(service_set_stale(r, TRUE), "sync")
                ELSE LET h == CallHook(r, "sync", ok)
                     IN  IF h.exc THEN service_set_stale(Caught(h), TRUE)
                         ELSE service_set_updated(service_set_stale(h, FALSE), "sync")
    IN  service_update_status(body)

\* Variant of service_sync that runs the sync hook in every state.
service_sync_AlwaysRun(r, force, ok) ==
    LET h    == CallHook(r, "sync", ok)
        body == IF h.exc THEN Caught(h)
                ELSE service_set_updated(service_set_stale(h, FALSE), "sync")
    IN  service_update_status(body)

\* Variant of service_sync whose refusal does not mark the service stale.
service_sync_RefuseKeepsStale(r, force, ok) ==
    LET body == IF r.state \notin PRESTARTED_STATES /\ ~force
                THEN service_set_updated(r, "sync")
                ELSE LET h == CallHook(r, "sync", ok)
                     IN  IF h.exc THEN Caught(h)
                         ELSE service_set_updated(service_set_stale(h, FALSE), "sync")
    IN  service_update_status(body)

service_sync(r, force, ok) ==
    LET body == IF r.state \notin PRESTARTED_STATES /\ ~force
                THEN service_set_updated(service_set_stale(r, TRUE), "sync")
                ELSE LET h == CallHook(r, "sync", ok)
                     IN  IF h.exc THEN Caught(h)
                         ELSE service_set_updated(service_set_stale(h, FALSE), "sync")
    IN  service_update_status(body)

\* Variant of service_start that gives up when the sync hook raised.
service_start_SyncFailureAborts(r, syncOk, startOk) ==
    IF r.state \in PRESTARTED_STATES
    THEN LET a == service_sync(r, FALSE, syncOk)
             h == CallHook(a, "start", startOk)
             b == IF ~syncOk THEN a
                  ELSE IF h.exc THEN Caught(h)
                  ELSE service_set_updated(service_set_state(h, "started"), "start")
         IN  service_update_status(b)
    ELSE r

\* Variant of service_start that commits the state before calling the hook.
service_start_StateBeforeHook(r, syncOk, startOk) ==
    IF r.state \in PRESTARTED_STATES
    THEN LET a == service_set_state(service_sync(r, FALSE, syncOk), "started")
             h == CallHook(a, "start", startOk)
             b == IF h.exc THEN Caught(h)
                  ELSE service_set_updated(h, "start")
         IN  service_update_status(b)
    ELSE r

\* Variant of service_start that also fires from idle.
service_start_FromIdle(r, syncOk, startOk) ==
    IF r.state \in PRESTARTED_STATES \cup {"idle"}
    THEN LET a == service_sync(r, FALSE, syncOk)
             h == CallHook(a, "start", startOk)
             b == IF h.exc THEN Caught(h)
                  ELSE service_set_updated(service_set_state(h, "started"), "start")
         IN  service_update_status(b)
    ELSE r

service_start(r, syncOk, startOk) ==
    IF r.state \in PRESTARTED_STATES
    THEN LET a == service_sync(r, FALSE, syncOk)
             h == CallHook(a, "start", startOk)
             b == IF h.exc THEN Caught(h)
                  ELSE service_set_updated(service_set_state(h, "started"), "start")
         IN  service_update_status(b)
    ELSE r

\* Variant of service_stop that fires in every state.
service_stop_NoGuard(r, ok) ==
    LET h == CallHook(r, "stop", ok)
        b == IF h.exc THEN Caught(h)
             ELSE service_set_updated(service_set_state(h, "enabled"), "stop")
    IN  service_update_status(b)

\* Variant of service_stop that commits the state before calling the hook.
service_stop_StateBeforeHook(r, ok) ==
    IF r.state \in STARTED_STATES
    THEN LET h == CallHook(service_set_state(r, "enabled"), "stop", ok)
             b == IF h.exc THEN Caught(h)
                  ELSE service_set_updated(h, "stop")
         IN  service_update_status(b)
    ELSE r

\* Variant of service_stop whose status update is skipped when the hook raises.
service_stop_StatusInTry(r, ok) ==
    IF r.state \in STARTED_STATES
    THEN LET h == CallHook(r, "stop", ok)
         IN  IF h.exc THEN Caught(h)
             ELSE service_update_status(
                      service_set_updated(service_set_state(h, "enabled"), "stop"))
    ELSE r

service_stop(r, ok) ==
    IF r.state \in STARTED_STATES
    THEN LET h == CallHook(r, "stop", ok)
             b == IF h.exc THEN Caught(h)
                  ELSE service_set_updated(service_set_state(h, "enabled"), "stop")
         IN  service_update_status(b)
    ELSE r

\* Variant of service_restart that does not start after a failed stop.
service_restart_AbortOnStopFailure(r, stopOk, syncOk, startOk) ==
    LET a == service_stop(r, stopOk)
    IN  IF r.state \in STARTED_STATES /\ ~stopOk THEN a
        ELSE service_start(a, syncOk, startOk)

service_restart(r, stopOk, syncOk, startOk) ==
    service_start(service_stop(r, stopOk), syncOk, startOk)

\* _on_service_set_sync_action with params key and status.
on_service_set_sync_action(r, key, status_arg, hOk) ==
    IF service_get_sync(r, key) # "None"
    THEN service_update_status(service_set_sync(r, key, status_arg, FALSE, hOk))
    ELSE r

\* _on_config_changed: the hook _service_on_config_changed inside the
\* service_forced_update wrapper; an exception of the hook is not caught.
on_config_changed(r, ok) ==
    service_forced_update(CallHook(r, "config_changed", ok), "config-changed")

\* _on_start
on_start(r, enableOk, syncOk, startOk) ==
    service_start(service_enable(r, enableOk), syncOk, startOk)

\* _on_stop
on_stop(r, stopOk, disableOk) ==
    service_update_status(service_disable(service_stop(r, stopOk), disableOk))

\* _on_update_status
on_update_status(r) ==
    IF service_update_status_raises(r) THEN [r EXCEPT !.exc = TRUE]
    ELSE service_update_status(r)

\* _on_service_sync_action with param force.
on_service_sync_action(r, force, ok) ==
    service_forced_update(service_sync(r, force, ok), "sync-action")

\* _on_service_restart_action
on_service_restart_action(r, stopOk, syncOk, startOk) ==
    service_forced_update(service_restart(r, stopOk, syncOk, startOk),
                          "restart-action")

\* unit.status before service_update_status has ever assigned it.
NoStatus ==
    [cls |-> "Unknown", updated |-> "None", stale |-> TRUE, state |-> "idle",
     nsynced |-> 0, nsyncs |-> 0, syncs |-> EmptyDict]

NoHandlers == [k \in Keys |-> FALSE]

\* The record of a unit whose store is empty, after set_default.
StoredDefaults ==
    [state |-> "idle", stale |-> TRUE, syncs |-> EmptyDict, updated |-> "None",
     status |-> NoStatus, required |-> {}, handlers |-> NoHandlers,
     log |-> <<>>, exc |-> FALSE]

\* ServiceCharm.__init__ over the stored record r: a new charm object has no
\* required syncs and no handlers; set_default leaves the stored fields that
\* exist alone; `updated` is stamped "init" and the status is not recomputed.
ServiceCharm_init(r) ==
    service_set_updated([r EXCEPT !.required = {}, !.handlers = NoHandlers],
                        "init")

ToSet(seq) == {seq[i] : i \in 1..Len(seq)}

\* The relation-name lists a NodeCharm subclass may pass.
Relnames ==
    {<<>>, <<"db">>, <<"cache">>, <<"db", "cache">>, <<"cache", "db">>}

\* The loop of setup_subordinate_relations_and_syncs; hOk[k] is the outcome
\* of the handler bound to k, should service_set_sync call it.
RECURSIVE setup_loop(_, _, _)
setup_loop(r, relnames, hOk) ==
    IF relnames = <<>> THEN r
    ELSE setup_loop(service_init_sync(r, Head(relnames), "False", FALSE,
                                      hOk[Head(relnames)]),
                    Tail(relnames), hOk)

setup_subordinate_relations_and_syncs(r, relnames, hOk) ==
    service_set_required_syncs(setup_loop(r, relnames, hOk), ToSet(relnames))

\* Tags passed to service_set_updated by code outside ServiceCharm: one that
\* ServiceCharm uses itself and one that it does not.
WhatTags == {"sync", "reinstall"}

(***************************************************************************)
(* State machine.  Install, Start and Stop are also the handlers           *)
(* _on_install, _on_service_start_action and _on_service_stop_action, which *)
(* only delegate; SetSync is also the relation handlers of NodeCharm.      *)
(***************************************************************************)
NoOp == [op |-> "none", key |-> "", val |-> "", force |-> FALSE, from |-> "idle"]

\* One event is processed at a time: an operation is called only when the
\* previous call has returned to the dispatcher.  Every action tests it
\* before it draws its inputs.
Ready == lastOp.op = "none"

Op(name, key, val, force) ==
    [op |-> name, key |-> key, val |-> val, force |-> force,
     from |-> state]

Commit(r, op) ==
    /\ Ready
    /\ state' = r.state
    /\ stale' = r.stale
    /\ syncs' = r.syncs
    /\ updated' = r.updated
    /\ status' = r.status
    /\ log' = r.log
    /\ raised' = r.exc
    /\ lastOp' = op

\* The variables hold record r, left by the call described by op.
Holds(r, op) ==
    /\ state = r.state
    /\ stale = r.stale
    /\ syncs = r.syncs
    /\ updated = r.updated
    /\ required = r.required
    /\ handlers = r.handlers
    /\ status = r.status
    /\ log = r.log
    /\ lastOp = op
    /\ raised = r.exc

\* The first construction of a ServiceCharm, over an empty store.
Init ==
    /\ Holds(ServiceCharm_init(StoredDefaults),
             [op |-> "construct", key |-> "", val |-> "", force |-> FALSE,
              from |-> "idle"])
    /\ everPassed = {}

\* The outcomes of a hook or handler call: it returns (TRUE) or raises (FALSE).
\* A call that is not made has no outcome to choose.
Outcomes(called) == IF called THEN BOOLEAN ELSE {TRUE}

Install ==
    /\ Ready
    /\ \E ok \in BOOLEAN :
           /\ Commit(service_install(Rec, ok), Op("install", "", "", FALSE))
           /\ UNCHANGED <<required, handlers, everPassed>>

Enable ==
    /\ Ready
    /\ \E ok \in Outcomes(state = "idle") :
           /\ Commit(service_enable(Rec, ok), Op("enable", "", "", FALSE))
           /\ UNCHANGED <<required, handlers, everPassed>>

Disable ==
    /\ Ready
    /\ \E ok \in Outcomes(state = "enabled") :
           /\ Commit(service_disable(Rec, ok), Op("disable", "", "", FALSE))
           /\ UNCHANGED <<required, handlers, everPassed>>

Start ==
    /\ Ready
    /\ \E syncOk \in Outcomes(state \in PRESTARTED_STATES),
          startOk \in Outcomes(state \in PRESTARTED_STATES) :
           /\ Commit(service_start(Rec, syncOk, startOk), Op("start", "", "", FALSE))
           /\ UNCHANGED <<required, handlers, everPassed>>

Stop ==
    /\ Ready
    /\ \E ok \in Outcomes(state \in STARTED_STATES), force \in BOOLEAN :
           /\ Commit(service_stop(Rec, ok), Op("stop", "", "", force))
           /\ UNCHANGED <<required, handlers, everPassed>>

Sync ==
    /\ Ready
    /\ \E force \in BOOLEAN :
         \E ok \in Outcomes(state \in PRESTARTED_STATES \/ force) :
           /\ Commit(service_sync(Rec, force, ok), Op("sync", "", "", force))
           /\ UNCHANGED <<required, handlers, everPassed>>

Restart ==
    /\ Ready
    /\ \E stopOk \in Outcomes(state \in STARTED_STATES) :
         \E syncOk, startOk \in
               Outcomes(service_stop(Rec, stopOk).state \in PRESTARTED_STATES) :
           /\ Commit(service_restart(Rec, stopOk, syncOk, startOk), Op("restart", "", "", FALSE))
           /\ UNCHANGED <<required, handlers, everPassed>>

SetState ==
    /\ Ready
    /\ \E s \in States :
           /\ Commit(service_set_state(Rec, s), Op("set_state", "", s, FALSE))
           /\ UNCHANGED <<required, handlers, everPassed>>

SetStale ==
    /\ Ready
    /\ \E flag \in BOOLEAN :
           /\ Commit(service_set_stale(Rec, flag), Op("set_stale", "", "", flag))
           /\ UNCHANGED <<required, handlers, everPassed>>

\* service_set_sync(key, v, force) calls the handler bound to key.
HandlerCalled(key, v, force) ==
    /\ handlers[key]
    /\ \/ v = "None"
       \/ force
       \/ v # (IF key \in DOMAIN syncs THEN syncs[key] ELSE "None")

SetSync ==
    /\ Ready
    /\ \E key \in Keys, v \in SyncValues, force \in BOOLEAN :
         \E hOk \in Outcomes(HandlerCalled(key, v, force)) :
           /\ Commit(service_set_sync(Rec, key, v, force, hOk), Op("set_sync", key, v, force))
           /\ everPassed' = everPassed \cup {key}
           /\ UNCHANGED <<required, handlers>>

InitSync ==
    /\ Ready
    /\ \E key \in Keys, v \in BOOLEAN, h \in BOOLEAN :
         \E hOk \in Outcomes(handlers[key] /\ key \notin DOMAIN syncs) :
           LET r == service_init_sync(Rec, key, IF v THEN "True" ELSE "False",
                                      h, hOk)
           IN  /\ Commit(r, Op("init_sync", key, IF v THEN "True" ELSE "False", h))
               /\ handlers' = r.handlers
               /\ everPassed' = everPassed \cup {key}
               /\ UNCHANGED required

SetSyncAction ==
    /\ Ready
    /\ \E key \in Keys, v \in SyncValues :
         \E hOk \in Outcomes(/\ service_get_sync(Rec, key) # "None"
                              /\ HandlerCalled(key, v, FALSE)) :
           /\ Commit(on_service_set_sync_action(Rec, key, v, hOk),
                     Op("set_sync_action", key, v, FALSE))
           /\ everPassed' = IF service_get_sync(Rec, key) # "None"
                            THEN everPassed \cup {key} ELSE everPassed
           /\ UNCHANGED <<required, handlers>>

\* service_set_updated called by code outside ServiceCharm.
SetUpdated ==
    /\ Ready
    /\ \E what \in WhatTags :
           /\ Commit(service_set_updated(Rec, what), Op("set_updated", "", what, FALSE))
           /\ UNCHANGED <<required, handlers, everPassed>>

\* The update-status event (also a direct call of service_update_status).
UpdateStatus ==
    /\ Ready
    /\ /\ Commit(on_update_status(Rec), Op("update_status", "", "", FALSE))
       /\ UNCHANGED <<required, handlers, everPassed>>

ConfigChanged ==
    /\ Ready
    /\ \E ok \in BOOLEAN :
           /\ Commit(on_config_changed(Rec, ok), Op("config_changed", "", "", FALSE))
           /\ UNCHANGED <<required, handlers, everPassed>>

\* The start event.
OnStart ==
    /\ Ready
    /\ \E enableOk \in Outcomes(state = "idle") :
         \E syncOk, startOk \in
               Outcomes(service_enable(Rec, enableOk).state \in PRESTARTED_STATES) :
           /\ Commit(on_start(Rec, enableOk, syncOk, startOk),
                     Op("on_start", "", "", FALSE))
           /\ UNCHANGED <<required, handlers, everPassed>>

\* The stop event.
OnStop ==
    /\ Ready
    /\ \E stopOk \in Outcomes(state \in STARTED_STATES), disableOk \in BOOLEAN :
           /\ Commit(on_stop(Rec, stopOk, disableOk), Op("on_stop", "", "", FALSE))
           /\ UNCHANGED <<required, handlers, everPassed>>

SyncAction ==
    /\ Ready
    /\ \E force \in BOOLEAN :
         \E ok \in Outcomes(state \in PRESTARTED_STATES \/ force) :
           /\ Commit(on_service_sync_action(Rec, force, ok),
                     Op("sync_action", "", "", force))
           /\ UNCHANGED <<required, handlers, everPassed>>

RestartAction ==
    /\ Ready
    /\ \E stopOk \in Outcomes(state \in STARTED_STATES) :
         \E syncOk, startOk \in
               Outcomes(service_stop(Rec, stopOk).state \in PRESTARTED_STATES) :
           /\ Commit(on_service_restart_action(Rec, stopOk, syncOk, startOk),
                     Op("restart_action", "", "", FALSE))
           /\ UNCHANGED <<required, handlers, everPassed>>

\* The charm object is constructed again, for the next event, over the stored
\* record the previous one left.
Construct ==
    /\ Ready
    /\ LET r == ServiceCharm_init(Rec)
       IN  /\ Commit(r, Op("construct", "", "", FALSE))
           /\ required' = r.required
           /\ handlers' = r.handlers
           /\ UNCHANGED everPassed

\* The handler outcomes for the keys in `called`; no choice for the others.
HandlerOutcomes(called) ==
    {f \in [Keys -> BOOLEAN] : \A k \in Keys \ called : f[k]}

\* NodeCharm.setup_subordinate_relations_and_syncs(relnames)
SetupSubordinate ==
    /\ Ready
    /\ \E relnames \in Relnames :
         \E hOk \in HandlerOutcomes({k \in ToSet(relnames) :
                                         handlers[k] /\ k \notin DOMAIN syncs}) :
           LET r == setup_subordinate_relations_and_syncs(Rec, relnames, hOk)
           IN  /\ Commit(r, Op("setup", "", "", FALSE))
               /\ required' = r.required
               /\ handlers' = r.handlers
               /\ everPassed' = everPassed \cup ToSet(relnames)

\* The constructor of a NodeCharm subclass built as the class prescribes:
\* ServiceCharm.__init__, then setup_subordinate_relations_and_syncs.  No
\* handler is bound when the loop runs, so no handler is called.
NodeCharm_init(r, relnames) ==
    setup_subordinate_relations_and_syncs(ServiceCharm_init(r), relnames,
                                          [k \in Keys |-> TRUE])

\* Such a charm constructed over the stored record with relation names
\* relnames.
NodeConstructWith(relnames) ==
    LET r == NodeCharm_init(Rec, relnames)
    IN  /\ Commit(r, Op("node_construct", "", "", FALSE))
        /\ required' = r.required
        /\ handlers' = r.handlers
        /\ everPassed' = everPassed \cup ToSet(relnames)

\* The relation names may differ from those of the previous construction
\* (another charm revision).
NodeConstruct ==
    /\ Ready
    /\ \E relnames \in Relnames : NodeConstructWith(relnames)

\* Variant of service_set_required_syncs that re-evaluates the state.
SetRequiredSyncs_Reevaluate ==
    \E keys \in SUBSET Keys :
        /\ Ready
        /\ required' = keys
        /\ state' = IF state \in STARTED_STATES
                    THEN IF \A name \in keys : Truthy(service_get_sync(Rec, name))
                         THEN "started"
                         ELSE IF state = "waiting" THEN "waiting" ELSE "broken"
                    ELSE state
        /\ lastOp' = Op("set_required_syncs", "", "", FALSE)
        /\ log' = <<>>
        /\ raised' = FALSE
        /\ UNCHANGED <<stale, syncs, updated, status, handlers, everPassed>>

SetRequiredSyncs ==
    /\ Ready
    /\ \E keys \in SUBSET Keys :
           LET r == service_set_required_syncs(Rec, keys)
           IN  /\ Commit(r, Op("set_required_syncs", "", "", FALSE))
               /\ required' = r.required
               /\ UNCHANGED <<handlers, everPassed>>

\* The call returns to the dispatcher, which forgets what the call did.
Return ==
    /\ ~Ready
    /\ lastOp' = NoOp
    /\ log' = <<>>
    /\ raised' = FALSE
    /\ UNCHANGED <<state, stale, syncs, updated, required, handlers, status,
                   everPassed>>

Next ==
    \/ Install
    \/ Enable
    \/ Disable
    \/ Start
    \/ Stop
    \/ Sync
    \/ Restart
    \/ SetState
    \/ SetStale
    \/ SetSync
    \/ InitSync
    \/ SetSyncAction
    \/ SetRequiredSyncs
    \/ SetUpdated
    \/ UpdateStatus
    \/ ConfigChanged
    \/ OnStart
    \/ OnStop
    \/ SyncAction
    \/ RestartAction
    \/ Construct
    \/ SetupSubordinate
    \/ NodeConstruct
    \/ Return

Spec == Init /\ [][Next]_vars

(***************************************************************************)
(* The charm whose required syncs are fixed: a NodeCharm subclass whose     *)
(* relation names are the same at every construction, and on which nothing *)
(* else sets the required syncs.                                           *)
(***************************************************************************)

\* The first construction, over an empty store.
InitFixedRequired ==
    \E relnames \in Relnames :
        /\ Holds(NodeCharm_init(StoredDefaults, relnames),
                 [op |-> "node_construct", key |-> "", val |-> "",
                  force |-> FALSE, from |-> "idle"])
        /\ everPassed = ToSet(relnames)

\* The charm object is constructed again for the next event, with the names
\* of the first construction: they are the required syncs in force.
NodeConstructSame ==
    /\ Ready
    /\ \E relnames \in Relnames :
           /\ ToSet(relnames) = required
           /\ NodeConstructWith(relnames)

NextFixedRequired ==
    \/ Install
    \/ Enable
    \/ Disable
    \/ Start
    \/ Stop
    \/ Sync
    \/ Restart
    \/ SetState
    \/ SetStale
    \/ SetSync
    \/ InitSync
    \/ SetSyncAction
    \/ SetUpdated
    \/ UpdateStatus
    \/ ConfigChanged
    \/ OnStart
    \/ OnStop
    \/ SyncAction
    \/ RestartAction
    \/ NodeConstructSame
    \/ Return

SpecFixedRequired == InitFixedRequired /\ [][NextFixedRequired]_vars

TypeOK ==
    /\ state \in States
    /\ stale \in BOOLEAN
    /\ DOMAIN syncs \subseteq Keys
    /\ required \subseteq Keys
(***************************************************************************)
(* Observations of the call that has just returned                         *)
(***************************************************************************)
InLog(e) == \E i \in 1..Len(log) : log[i] = e

HookCalled(name) == InLog(<<"hook", name>>)

HookRaised(name) == InLog(<<"hook-raise", name>>)

AnyHookRaised == \E i \in 1..Len(log) : log[i][1] = "hook-raise"

\* After every raise of hook `name` in the log, `updated` is stamped again.
StampAfterRaise(name) ==
    \A i \in 1..Len(log) :
        log[i] = <<"hook-raise", name>> =>
            \E j \in (i+1)..Len(log) : log[j][1] = "stamp"

\* After every raise of hook `name` in the log, service_update_status runs.
StatusAfterRaise(name) ==
    \A i \in 1..Len(log) :
        log[i] = <<"hook-raise", name>> =>
            \E j \in (i+1)..Len(log) : log[j] = <<"status", "">>

Synced == service_is_synced(Rec)

HookOps == {"install", "start", "stop", "sync"}

(***************************************************************************)
(* Properties                                                              *)
(***************************************************************************)

\* C1 (as stated): service_start called while state == idle with no hook
\* raising leaves idle: the state becomes started when every required sync is
\* true and waiting when some required sync is false.
C1_StartFromIdleLeavesIdle ==
    (lastOp.op = "start" /\ lastOp.from = "idle" /\ ~AnyHookRaised)
        => /\ state # "idle"
           /\ state = (IF Synced THEN "started" ELSE "waiting")

\* C1 (amended): service_start called while state == idle is a no-op (no hook
\* is called and the state stays idle); called while state == enabled with no
\* hook raising, the state becomes started when every required sync is true
\* and waiting when some required sync is false.
C1_StartFromEnabled ==
    (lastOp.op = "start" /\ ~AnyHookRaised)
        => /\ lastOp.from = "idle" => (state = "idle" /\ log = <<>>)
           /\ lastOp.from = "enabled" =>
                  state = (IF Synced THEN "started" ELSE "waiting")

C1_Witness ==
    /\ lastOp.op = "start" /\ lastOp.from = "enabled" /\ ~AnyHookRaised
    /\ required = {"db"}
    /\ "db" \in DOMAIN syncs /\ syncs["db"] = "False"
    /\ state = "waiting"

\* C2: service_set_state("started") while service_is_synced() is false gives
\* broken when the current state is started and waiting when it is idle.
C2_SetStateStartedUnsynced ==
    (lastOp.op = "set_state" /\ lastOp.val = "started" /\ ~Synced)
        => /\ lastOp.from = "started" => state = "broken"
           /\ lastOp.from = "idle" => state = "waiting"

C2_Witness ==
    /\ lastOp.op = "set_state" /\ lastOp.val = "started" /\ ~Synced
    /\ lastOp.from = "started"
    /\ state = "broken"

\* C3: when the hook of service_install, service_start, service_stop or
\* service_sync raises, the public operation returns normally: no exception
\* reaches its caller.
C3_NoHookFailureEscapes ==
    (lastOp.op \in HookOps /\ HookRaised(lastOp.op)) => ~raised

\* C4 (as stated): when the hook of service_install, service_start,
\* service_stop or service_sync raises, `updated` is stamped again and
\* service_update_status is run after the failure.
C4_StampAndStatusAfterFailure ==
    (lastOp.op \in HookOps /\ HookRaised(lastOp.op))
        => StampAfterRaise(lastOp.op) /\ StatusAfterRaise(lastOp.op)

\* C4 (amended): when the hook of service_install, service_start,
\* service_stop or service_sync raises, service_update_status is run after
\* the failure; `updated` is stamped again (tag "install") only by
\* service_install, and start, stop and sync make no stamp after the failure.
C4_StatusAfterFailure ==
    (lastOp.op \in HookOps /\ HookRaised(lastOp.op))
        => /\ StatusAfterRaise(lastOp.op)
           /\ status.state = state /\ status.updated = updated
           /\ lastOp.op = "install" =>
                  (StampAfterRaise("install") /\ updated = "install")
           /\ lastOp.op # "install" => ~StampAfterRaise(lastOp.op)

C4_Witness ==
    /\ lastOp.op = "stop" /\ HookRaised("stop")
    /\ state = "broken"
    /\ log[Len(log)] = <<"status", "">>

\* C5: service_is_synced() is true iff every key of required_syncs maps to
\* True in syncs (an absent required key counts as false, an empty required
\* list gives true), and the value of a key that is not required does not
\* affect the result.
C5_IsSyncedIffRequiredTrue ==
    /\ Synced <=> (\A k \in required : k \in DOMAIN syncs /\ syncs[k] = "True")
    /\ \A k \in Keys \ required : \A v \in SyncValues :
           service_is_synced([Rec EXCEPT !.syncs = DictSet(syncs, k, v)]) = Synced

C5_Witness ==
    /\ required = {"db"}
    /\ DOMAIN syncs = Keys
    /\ syncs["db"] = "True" /\ syncs["cache"] = "False"
    /\ Synced

\* C6 (as stated): service_sync with force=false calls the sync hook exactly
\* when the state is idle or enabled; in started, waiting or broken it does
\* not call the hook, sets stale=true and stamps updated with "sync".
C6_SyncHookIffIdleOrEnabled ==
    (lastOp.op = "sync" /\ ~lastOp.force)
        => /\ HookCalled("sync") <=> lastOp.from \in {"idle", "enabled"}
           /\ lastOp.from \in {"started", "waiting", "broken"} =>
                  (~HookCalled("sync") /\ stale /\ updated = "sync")

\* C6 (amended): service_sync with force=false calls the sync hook exactly
\* when the state is enabled, waiting or broken (PRESTARTED_STATES); in idle
\* or started it does not call the hook, sets stale=true and stamps updated
\* with "sync".
C6_SyncHookIffPrestarted ==
    (lastOp.op = "sync" /\ ~lastOp.force)
        => /\ HookCalled("sync") <=> lastOp.from \in {"enabled", "waiting", "broken"}
           /\ lastOp.from \in {"idle", "started"} =>
                  /\ ~HookCalled("sync")
                  /\ stale
                  /\ updated = "sync"
                  /\ InLog(<<"stamp", "sync">>)

C6_Witness ==
    /\ lastOp.op = "sync" /\ ~lastOp.force
    /\ lastOp.from = "waiting"
    /\ HookCalled("sync")

\* C7: service_sync with force=false while state == idle does not call the
\* sync hook and leaves stale == true.
C7_SyncFromIdleRefuses ==
    (lastOp.op = "sync" /\ ~lastOp.force /\ lastOp.from = "idle")
        => ~HookCalled("sync") /\ stale

\* The refusal found stale == false and set it.
C7_Witness ==
    /\ lastOp.op = "sync" /\ ~lastOp.force /\ lastOp.from = "idle"
    /\ InLog(<<"stamp", "stale">>)
    /\ stale

\* C8: service_set_sync(key, v, force=false) called twice in a row with the
\* same boolean v acts at most once.  A call with boolean v leaves
\* syncs[key] == v, so the second call starts with syncs[key] == v; such a
\* call calls neither the handler nor service_update_status and changes none
\* of syncs, state, updated and the projected status.
C8_SetSyncSameValueIsNoOp ==
    [][ (lastOp'.op = "set_sync" /\ lastOp'.val # "None")
            => /\ lastOp'.key \in DOMAIN syncs'
               /\ syncs'[lastOp'.key] = lastOp'.val
               /\ ( /\ ~lastOp'.force
                    /\ lastOp'.key \in DOMAIN syncs
                    /\ syncs[lastOp'.key] = lastOp'.val )
                  => /\ log' = <<>>
                     /\ syncs' = syncs
                     /\ state' = state
                     /\ updated' = updated
                     /\ status' = status ]_vars

\* A repeated call on a key whose handler is bound: nothing was called.
C8_Witness ==
    /\ lastOp.op = "set_sync" /\ ~lastOp.force /\ lastOp.val = "True"
    /\ handlers[lastOp.key]
    /\ lastOp.key \in DOMAIN syncs /\ syncs[lastOp.key] = "True"
    /\ log = <<>>

\* C9: the key set of service_get_syncs() is exactly the set of keys ever
\* passed to service_init_sync or service_set_sync.
C9_SyncKeysAreKeysPassed ==
    DOMAIN service_get_syncs(Rec) = everPassed

\* Both keys were passed, one of them only with the status omitted.
C9_Witness ==
    /\ everPassed = Keys
    /\ \E k \in DOMAIN syncs : syncs[k] = "None"

\* C10: every key of syncs was initialized through service_init_sync, called
\* directly or by setup_subordinate_relations_and_syncs (no other operation
\* adds a key), and service_get_sync of a key that is not in syncs returns
\* false.
C10_OnlyInitSyncAddsKeys ==
    [][ /\ \/ DOMAIN syncs' \subseteq DOMAIN syncs
           \/ lastOp'.op \in {"init_sync", "setup", "node_construct"}
        /\ \A k \in Keys \ DOMAIN syncs : service_get_sync(Rec, k) = "False" ]_vars
\* C11: service_install, in every state, ends with updated carrying the tag
\* "install" and with service_update_status run after the install hook, both
\* when the hook returns and when it raises.
C11_InstallAlwaysStampsAndUpdates ==
    lastOp.op = "install"
        => /\ HookCalled("install")
           /\ updated = "install"
           /\ \E i \in 1..Len(log) :
                  /\ log[i] = <<"hook", "install">>
                  /\ \E j \in (i+1)..Len(log) : log[j] = <<"stamp", "install">>
                  /\ \E j \in (i+1)..Len(log) : log[j] = <<"status", "">>
           /\ log[Len(log)] = <<"status", "">>
           /\ status.updated = "install"
           /\ status.state = state

\* The install hook raised while the service was started.
C11_Witness ==
    /\ lastOp.op = "install" /\ lastOp.from = "started"
    /\ HookRaised("install")
    /\ updated = "install" /\ status.updated = "install"

\* C12: service_set_state("broken") and service_set_state("waiting") give
\* the same resulting state as service_set_state("started"): started if
\* service_is_synced(), otherwise broken if the current state is broken or
\* started, otherwise waiting.
C12_BrokenWaitingAreDerived ==
    (lastOp.op = "set_state" /\ lastOp.val \in {"started", "broken", "waiting"})
        => state = (IF Synced THEN "started"
                    ELSE IF lastOp.from \in {"broken", "started"} THEN "broken"
                    ELSE "waiting")

\* broken was requested from idle with every required sync true.
C12_Witness ==
    /\ lastOp.op = "set_state" /\ lastOp.val = "broken"
    /\ lastOp.from = "idle"
    /\ required # {} /\ Synced
    /\ state = "started"

\* C13: service_stop calls the stop hook, and may change the state, only when
\* the current state is started, waiting or broken; in idle or enabled it is
\* a no-op: the hook is not called and the state is unchanged.
C13_StopOnlyFromStartedStates ==
    lastOp.op = "stop"
        => /\ HookCalled("stop") <=> lastOp.from \in {"started", "waiting", "broken"}
           /\ lastOp.from \in {"idle", "enabled"} =>
                  (state = lastOp.from /\ log = <<>>)

C13_Witness ==
    /\ lastOp.op = "stop" /\ lastOp.from = "idle"
    /\ state = "idle"
    /\ log = <<>>

\* C14: when service_stop fires from started, waiting or broken, a returning
\* stop hook gives state enabled (whatever the syncs are) and updated tag
\* "stop"; a raising stop hook leaves the state at its pre-call value; in both
\* cases service_update_status is run before the operation returns.
C14_StopOutcome ==
    (lastOp.op = "stop" /\ lastOp.from \in {"started", "waiting", "broken"})
        => /\ ~HookRaised("stop") => (state = "enabled" /\ updated = "stop")
           /\ HookRaised("stop") => state = lastOp.from
           /\ log[Len(log)] = <<"status", "">>
           /\ status.state = state /\ status.updated = updated

\* Stopped from broken while a required sync is false.
C14_Witness ==
    /\ lastOp.op = "stop" /\ lastOp.from = "broken"
    /\ ~Synced
    /\ ~HookRaised("stop")
    /\ state = "enabled" /\ updated = "stop"

\* C15: when service_start fires and the start hook raises, the state after
\* service_start equals the state before it, although the sync sub-step may
\* already have set stale=false; service_update_status is still run.
C15_StartHookFailureKeepsState ==
    (lastOp.op = "start" /\ HookRaised("start"))
        => /\ state = lastOp.from
           /\ StatusAfterRaise("start")
           /\ status.state = state /\ status.stale = stale

\* The sync sub-step cleared stale, then the start hook raised.
C15_Witness ==
    /\ lastOp.op = "start" /\ lastOp.from = "enabled"
    /\ HookRaised("start")
    /\ InLog(<<"stamp", "stale">>) /\ ~stale
    /\ state = "enabled"
\* Membership in a call log.
InSeq(l, e) == \E i \in 1..Len(l) : l[i] = e

\* C16: when service_sync runs the sync hook (state eligible or force=true),
\* a returning hook makes stale false; a raising hook leaves stale at its
\* pre-call value (it is not set to true) and leaves the state unchanged.
C16_SyncHookOutcome ==
    [][ (lastOp'.op = "sync" /\ InSeq(log', <<"hook", "sync">>))
            => IF InSeq(log', <<"hook-raise", "sync">>)
               THEN stale' = stale /\ state' = state
               ELSE stale' = FALSE /\ state' = state ]_vars

\* A forced sync from started whose hook raised while stale was false.
C16_Witness ==
    /\ lastOp.op = "sync" /\ lastOp.force /\ lastOp.from = "started"
    /\ HookRaised("sync")
    /\ ~stale

\* C17: service_enable calls the enable hook only when state == idle; when
\* the hook returns the state becomes enabled; when it raises, nothing
\* reaches the caller and the state stays idle; in any other state the hook
\* is not called and the state is unchanged.
C17_EnableOnlyFromIdle ==
    lastOp.op = "enable"
        => /\ HookCalled("enable") <=> lastOp.from = "idle"
           /\ (lastOp.from = "idle" /\ ~HookRaised("enable")) => state = "enabled"
           /\ HookRaised("enable") => (~raised /\ state = "idle")
           /\ lastOp.from # "idle" => state = lastOp.from

C17_Witness ==
    /\ lastOp.op = "enable" /\ lastOp.from = "idle"
    /\ HookRaised("enable")
    /\ ~raised
    /\ state = "idle"

\* C18: service_init_sync(key, s, handler) on a key already in syncs leaves
\* syncs[key], state and stale unchanged whatever s is; on an absent key it
\* stores s; in both cases the handler bound to key afterwards is the one
\* passed in the call (None unbinds it).
C18_InitSyncKeepsExistingValue ==
    [][ lastOp'.op = "init_sync"
            => /\ lastOp'.key \in DOMAIN syncs =>
                      /\ syncs'[lastOp'.key] = syncs[lastOp'.key]
                      /\ state' = state
                      /\ stale' = stale
               /\ lastOp'.key \notin DOMAIN syncs =>
                      /\ lastOp'.key \in DOMAIN syncs'
                      /\ syncs'[lastOp'.key] = lastOp'.val
               /\ handlers'[lastOp'.key] = lastOp'.force ]_vars

\* Re-registration with another status and without a handler.
C18_Witness ==
    /\ lastOp.op = "init_sync" /\ lastOp.val = "False" /\ ~lastOp.force
    /\ lastOp.key \in DOMAIN syncs /\ syncs[lastOp.key] = "True"
    /\ ~handlers[lastOp.key]
    /\ log = <<>>

\* C19: an operation that changes syncs, state or stale stamps updated and
\* calls service_update_status before it returns, and it returns with the
\* projected status computed from the new values.
C19_NoSilentMutation ==
    [][ (syncs' # syncs \/ state' # state \/ stale' # stale)
            => /\ \E i \in 1..Len(log') : \E j \in (i+1)..Len(log') :
                      log'[i][1] = "stamp" /\ log'[j] = <<"status", "">>
               /\ log'[Len(log')] = <<"status", "">>
               /\ status'.syncs = syncs'
               /\ status'.state = state'
               /\ status'.stale = stale'
               /\ status'.updated = updated' ]_vars

\* A required sync turned false while started: syncs and state both changed.
C19_Witness ==
    /\ lastOp.op = "set_sync" /\ lastOp.val = "False"
    /\ lastOp.from = "started" /\ state = "broken"
    /\ status.state = "broken" /\ status.syncs = syncs

\* C20: when an operation that changed the state has returned, the projected
\* status class matches the state: Blocked iff broken, Waiting iff waiting,
\* Active iff started, Maintenance iff idle or enabled; and
\* service_update_status raises in no reachable state.
C20_StatusClassMatchesState ==
    /\ (lastOp.op # "none" /\ state # lastOp.from)
           => /\ status.cls = "Blocked" <=> state = "broken"
              /\ status.cls = "Waiting" <=> state = "waiting"
              /\ status.cls = "Active" <=> state = "started"
              /\ status.cls = "Maintenance" <=> state \in {"idle", "enabled"}
    /\ ~service_update_status_raises(Rec)

C20_Witness ==
    /\ lastOp.op = "restart" /\ lastOp.from = "started"
    /\ state = "waiting"
    /\ status.cls = "Waiting"
\* C21: service_set_sync(key) with the status omitted, for any key, leaves
\* the syncs mapping exactly as it was (no value changed, no key added),
\* calls the handler bound to key and re-evaluates the state and the
\* projected status.
C21_UnsetStatusLeavesSyncs ==
    [][ (lastOp'.op = "set_sync" /\ lastOp'.val = "None")
            => /\ syncs' = syncs
               /\ handlers[lastOp'.key] => InSeq(log', <<"handler", lastOp'.key>>)
               /\ InSeq(log', <<"status", "">>) ]_vars

\* C22: when service_set_sync changes a key (or is forced) and the key's
\* handler raises, nothing reaches the caller, syncs[key] holds the new
\* status, and the state re-evaluation, the stamp "sync" and the status
\* recompute take place exactly as when the handler returns.
C22_HandlerFailureIsAbsorbed ==
    [][ (lastOp'.op = "set_sync"
         /\ InSeq(log', <<"handler-raise", lastOp'.key>>))
            => LET k   == lastOp'.key
                   cur == IF k \in DOMAIN syncs THEN syncs[k] ELSE "None"
                   new == IF lastOp'.val = "None" THEN cur ELSE lastOp'.val
                   ok  == service_set_sync(Rec, k, lastOp'.val, lastOp'.force, TRUE)
               IN  /\ ~raised'
                   /\ k \in DOMAIN syncs' /\ syncs'[k] = new
                   /\ updated' = "sync"
                   /\ Len(log') >= 2
                   /\ log'[Len(log') - 1] = <<"stamp", "sync">>
                   /\ log'[Len(log')] = <<"status", "">>
                   /\ state' = ok.state
                   /\ syncs' = ok.syncs
                   /\ status' = ok.status
                   /\ (state \in STARTED_STATES) =>
                          state' = (IF Synced' THEN "started"
                                    ELSE IF state \in {"broken", "started"}
                                         THEN "broken" ELSE "waiting")
                   /\ (state \notin STARTED_STATES) => state' = state ]_vars

\* The handler raised while the change broke a started service.
C22_Witness ==
    /\ lastOp.op = "set_sync" /\ lastOp.val = "False"
    /\ InLog(<<"handler-raise", lastOp.key>>)
    /\ lastOp.from = "started" /\ state = "broken"
    /\ ~raised
    /\ updated = "sync"

\* C23: with required_syncs fixed (a NodeCharm built with the same relation
\* names at every construction), after any sequence of operations (hooks
\* returning or raising), state == started implies service_is_synced(); a
\* required sync turning false while started moves the state to broken within
\* the same set_sync call.
C23_StartedImpliesSynced ==
    /\ state = "started" => Synced
    /\ (lastOp.op = "set_sync" /\ lastOp.from = "started" /\ ~Synced)
           => state = "broken"

\* A required sync was set to False while the service was started.
C23_Witness ==
    /\ lastOp.op = "set_sync" /\ lastOp.val = "False"
    /\ lastOp.key \in required
    /\ lastOp.from = "started"
    /\ ~Synced
    /\ state = "broken"

\* C24: when the state is waiting or broken and a service_set_sync call makes
\* service_is_synced() true, the state becomes started within that call and
\* neither the start hook nor the sync hook is called; the state stays
\* waiting (resp. broken) after a set_sync that leaves a required sync false.
C24_RecoveryBySetSync ==
    [][ (lastOp'.op = "set_sync" /\ state \in {"waiting", "broken"})
            => /\ (~Synced /\ Synced') =>
                      /\ state' = "started"
                      /\ ~InSeq(log', <<"hook", "start">>)
                      /\ ~InSeq(log', <<"hook", "sync">>)
               /\ ~Synced' => state' = state ]_vars

\* The last unsatisfied required sync became true while broken.
C24_Witness ==
    /\ lastOp.op = "set_sync" /\ lastOp.val = "True"
    /\ lastOp.key \in required
    /\ lastOp.from = "broken"
    /\ state = "started"
    /\ log = << <<"stamp", "state">>, <<"status", "">>,
                <<"stamp", "sync">>, <<"status", "">> >>
\* C25: every transition into broken comes from started: no operation moves
\* idle, enabled or waiting to broken, and a service_start or
\* service_set_sync made while the state is waiting and a required sync is
\* false leaves the state waiting.
C25_BrokenOnlyFromStarted ==
    [][ /\ (state' = "broken" /\ state # "broken") => state = "started"
        /\ (lastOp'.op \in {"start", "set_sync"} /\ state = "waiting" /\ ~Synced')
               => state' = "waiting" ]_vars

\* A repeated start while waiting: both hooks ran, the state is still waiting.
C25_Witness ==
    /\ lastOp.op = "start" /\ lastOp.from = "waiting"
    /\ HookCalled("start") /\ ~AnyHookRaised
    /\ ~Synced
    /\ state = "waiting"

\* C26: when service_start fires and the sync hook raises in its sync
\* sub-step, service_start still calls the start hook and, when that returns,
\* commits the derived state (started if synced, else waiting or broken) with
\* updated tag "start", while stale keeps its pre-call value.
C26_SyncFailureDoesNotPreventStart ==
    [][ (lastOp'.op = "start" /\ InSeq(log', <<"hook-raise", "sync">>))
            => /\ InSeq(log', <<"hook", "start">>)
               /\ stale' = stale
               /\ ~InSeq(log', <<"hook-raise", "start">>) =>
                      /\ updated' = "start"
                      /\ state' = (IF Synced THEN "started"
                                   ELSE IF state \in {"broken", "started"}
                                        THEN "broken" ELSE "waiting") ]_vars

\* The sync hook raised, the start hook returned and the service started
\* with its configuration still stale.
C26_Witness ==
    /\ lastOp.op = "start" /\ lastOp.from = "enabled"
    /\ HookRaised("sync") /\ ~HookRaised("start")
    /\ stale
    /\ state = "started" /\ updated = "start"

\* C27 (as stated): during service_restart, when the stop hook raises, from
\* started, waiting or broken alike, the start hook is not called and the
\* state is left unchanged.
C27_FailedStopPreventsStart ==
    (lastOp.op = "restart" /\ HookRaised("stop"))
        => ~HookCalled("start") /\ state = lastOp.from

\* C27 (amended): during service_restart the start hook is called exactly
\* when the state after the stop step is enabled, waiting or broken
\* (PRESTARTED_STATES).  When the stop hook raises from started, the start
\* hook is not called and the state is left unchanged; when it raises from
\* waiting or broken, the start step still runs: the sync and start hooks are
\* called and, when the start hook returns, the state is derived again.
C27_StartAfterStopStep ==
    lastOp.op = "restart"
        => /\ HookCalled("start") <=>
                  \/ lastOp.from = "enabled"
                  \/ lastOp.from \in {"waiting", "broken"}
                  \/ (lastOp.from = "started" /\ ~HookRaised("stop"))
           /\ (HookRaised("stop") /\ lastOp.from = "started") =>
                  (~HookCalled("start") /\ state = "started")
           /\ (HookRaised("stop") /\ lastOp.from \in {"waiting", "broken"}) =>
                  /\ HookCalled("sync") /\ HookCalled("start")
                  /\ ~HookRaised("start") =>
                         state = (IF Synced THEN "started" ELSE lastOp.from)
                  /\ HookRaised("start") => state = lastOp.from

\* The stop hook raised while waiting; the start step ran and started the
\* service.
C27_Witness ==
    /\ lastOp.op = "restart" /\ lastOp.from = "waiting"
    /\ HookRaised("stop")
    /\ HookCalled("start") /\ ~HookRaised("start")
    /\ state = "started"

\* C28: service_set_required_syncs changes only the required list: state,
\* stale, syncs, updated and the projected status are unchanged and the state
\* is not re-evaluated, so right after it the state can be started while
\* service_is_synced() is false.
C28_SetRequiredSyncsChangesOnlyRequired ==
    [][ lastOp'.op = "set_required_syncs"
            => /\ state' = state
               /\ stale' = stale
               /\ syncs' = syncs
               /\ updated' = updated
               /\ status' = status
               /\ handlers' = handlers
               /\ log' = <<>> ]_vars

\* started although a required sync is false.
C28_Witness ==
    /\ lastOp.op = "set_required_syncs"
    /\ state = "started"
    /\ ~Synced
====
